---- MODULE Spec2Model ----
(***************************************************************************)
(* Model of gonstruct/sluggable: the functional options, the query that    *)
(* Sluggable.Generate builds, and its collision-resolution decision.       *)
(*                                                                         *)
(* Go strings are modelled as sequences of tokens (one-character strings   *)
(* for slugs, longer literal pieces for SQL text), so that concatenation,  *)
(* TrimPrefix, HasPrefix, Atoi and integer formatting are computed and not *)
(* assumed.                                                                *)
(***************************************************************************)
EXTENDS Integers, Sequences, FiniteSets, TLC

(***************************************************************************)
(* Bounds of the model                                                     *)
(***************************************************************************)
\* number of row identifiers the executor can return
MaxRows == 2
\* largest numeric suffix carried by a stored slug
MaxSuffix == 2

\* the rows the table can hold
MaxTable == 3

(***************************************************************************)
(* strings, strconv and fmt                                                *)
(***************************************************************************)
Digits == <<"0", "1", "2", "3", "4", "5", "6", "7", "8", "9">>

DigitChars == {Digits[i] : i \in 1..10}

DigitVal(c) == (CHOOSE i \in 1..10 : Digits[i] = c) - 1

\* decimal formatting of an int, as fmt.Sprint does for an int operand
RECURSIVE Itoa(_)
Itoa(n) ==
  IF n < 0 THEN <<"-">> \o Itoa(0 - n)
  ELSE IF n < 10 THEN <<Digits[n + 1]>>
  ELSE Itoa(n \div 10) \o <<Digits[(n % 10) + 1]>>

RECURSIVE ParseDigits(_, _)
ParseDigits(s, acc) ==
  IF s = <<>> THEN acc
  ELSE ParseDigits(Tail(s), acc * 10 + DigitVal(Head(s)))

\* strconv.Atoi: optional sign, then one or more decimal digits; anything
\* else is an error.  The strings of the model are far shorter than the 19
\* digits at which Atoi reports a range error.
Atoi(s) ==
  LET signed == s # <<>> /\ Head(s) \in {"+", "-"}
      body   == IF signed THEN Tail(s) ELSE s
      bad    == body = <<>> \/ \E i \in 1..Len(body) : body[i] \notin DigitChars
  IN  IF bad THEN [err |-> TRUE, n |-> 0]
      ELSE [err |-> FALSE,
            n   |-> IF Head(s) = "-" THEN 0 - ParseDigits(body, 0)
                    ELSE ParseDigits(body, 0)]

HasPrefix(s, prefix) ==
  Len(s) >= Len(prefix) /\ SubSeq(s, 1, Len(prefix)) = prefix

TrimPrefix(s, prefix) ==
  IF HasPrefix(s, prefix) THEN SubSeq(s, Len(prefix) + 1, Len(s)) ELSE s

\* strings.ReplaceAll(s, old, new) for a one-token old
RECURSIVE ReplaceAll(_, _, _)
ReplaceAll(s, old, new) ==
  IF s = <<>> THEN <<>>
  ELSE (IF Head(s) = old THEN new ELSE <<Head(s)>>) \o ReplaceAll(Tail(s), old, new)

\* fmt.Sprint of string operands (and of a string next to an int) adds no
\* space: plain concatenation
Sprint3(a, b, c) == a \o b \o c

(***************************************************************************)
(* slug methods                                                            *)
(***************************************************************************)
ToLower(c) == IF c = "A" THEN "a" ELSE IF c = "B" THEN "b" ELSE c

SlugChars == {"a", "b"} \cup DigitChars \cup {"-", "_"}

RECURSIVE CollapseDashes(_)
CollapseDashes(s) ==
  IF Len(s) < 2 THEN s
  ELSE IF Head(s) = "-" /\ s[2] = "-" THEN CollapseDashes(Tail(s))
  ELSE <<Head(s)>> \o CollapseDashes(Tail(s))

RECURSIVE TrimLeft(_)
TrimLeft(s) ==
  IF s # <<>> /\ Head(s) \in {"-", "_"} THEN TrimLeft(Tail(s)) ELSE s

RECURSIVE TrimRight(_)
TrimRight(s) ==
  IF s # <<>> /\ s[Len(s)] \in {"-", "_"} THEN TrimRight(SubSeq(s, 1, Len(s) - 1))
  ELSE s

\* the default method: slugify.MakeLang(value, "en"); it lower-cases, turns
\* every character outside [a-z0-9-_] into "-", collapses runs of "-" and
\* trims "-" and "_" at both ends.  It does not use the seperator.
MakeLang(value) ==
  LET lowered == [i \in 1..Len(value) |-> ToLower(value[i])]
      dashed  == [i \in 1..Len(value) |->
                    IF lowered[i] \in SlugChars THEN lowered[i] ELSE "-"]
  IN  TrimRight(TrimLeft(CollapseDashes(dashed)))

\* the custom method of the README:
\* strings.ToLower(strings.ReplaceAll(value, " ", separator))
ReplaceMethod(value, seperator) ==
  LET replaced == ReplaceAll(value, " ", seperator)
  IN  [i \in 1..Len(replaced) |-> ToLower(replaced[i])]

\* opts.method(value, opts.seperator)
Method(method, value, seperator) ==
  IF method = "slugify" THEN MakeLang(value) ELSE ReplaceMethod(value, seperator)

(***************************************************************************)
(* options                                                                 *)
(***************************************************************************)
excludeDeletedWhere == <<"\"deleted_at\" IS NULL">>

UserWhere == <<"\"user_id\" = ", "?">>

CustomWhere == <<"custom_column = ", "?", " AND other_column = ", "?", " ">>

DefaultFirstUniqueSuffix == 2

getDefaultOptions ==
  [method            |-> "slugify",
   seperator         |-> <<"-">>,
   tableName         |-> <<>>,
   columnName        |-> <<"slug">>,
   identifier        |-> <<>>,
   firstUniqueSuffix |-> DefaultFirstUniqueSuffix,
   wheres            |-> [w \in {excludeDeletedWhere} |-> <<>>]]

WithMethod(opts, method) == [opts EXCEPT !.method = method]

\* the option without effect
WithSeperatorIgnored(opts, seperator) == opts

WithSeperator(opts, seperator) == [opts EXCEPT !.seperator = seperator]

WithTableName(opts, tableName) == [opts EXCEPT !.tableName = tableName]

WithColumnName(opts, columnName) == [opts EXCEPT !.columnName = columnName]

WithFirstUniqueSuffix(opts, suffix) == [opts EXCEPT !.firstUniqueSuffix = suffix]

WithIdentifier(opts, identifier) == [opts EXCEPT !.identifier = identifier]

\* the soft-delete predicate switched: removed when present, put back when
\* absent
WithDeletedToggles(opts) ==
  IF excludeDeletedWhere \in DOMAIN opts.wheres
  THEN [opts EXCEPT !.wheres =
          [w \in (DOMAIN opts.wheres) \ {excludeDeletedWhere} |-> opts.wheres[w]]]
  ELSE [opts EXCEPT !.wheres =
          [w \in (DOMAIN opts.wheres) \cup {excludeDeletedWhere} |->
             IF w = excludeDeletedWhere THEN <<>> ELSE opts.wheres[w]]]

\* delete(opts.wheres, excludeDeletedWhere)
WithDeleted(opts) ==
  [opts EXCEPT !.wheres =
     [w \in (DOMAIN opts.wheres) \ {excludeDeletedWhere} |-> opts.wheres[w]]]

\* opts.wheres[sql] = params
WithWhere(opts, sql, params) ==
  [opts EXCEPT !.wheres =
     [w \in (DOMAIN opts.wheres) \cup {sql} |->
        IF w = sql THEN params ELSE opts.wheres[w]]]

\* a sluggableOption value: the closure returned by one of the With*
\* constructors, as the constructor's name and its captured arguments
Option(kind, str, num, args) ==
  [kind |-> kind, str |-> str, num |-> num, args |-> args]

\* option(opts)
ApplyOption(opts, option) ==
  CASE option.kind = "WithMethod"            -> WithMethod(opts, option.str[1])
    [] option.kind = "WithSeperator"         -> WithSeperator(opts, option.str)
    [] option.kind = "WithTableName"         -> WithTableName(opts, option.str)
    [] option.kind = "WithColumnName"        -> WithColumnName(opts, option.str)
    [] option.kind = "WithFirstUniqueSuffix" -> WithFirstUniqueSuffix(opts, option.num)
    [] option.kind = "WithIdentifier"        -> WithIdentifier(opts, option.str)
    [] option.kind = "WithDeleted"           -> WithDeleted(opts)
    [] option.kind = "WithWhere"             -> WithWhere(opts, option.str, option.args)

\* for _, option := range options { option(opts) }
RECURSIVE ApplyOptions(_, _)
ApplyOptions(opts, list) ==
  IF list = <<>> THEN opts
  ELSE ApplyOptions(ApplyOption(opts, Head(list)), Tail(list))

\* New(options...): the defaults with the options applied
New(list) == ApplyOptions(getDefaultOptions, list)

(***************************************************************************)
(* Sluggable.Generate: the query                                           *)
(***************************************************************************)
BaseSql ==
  <<"SELECT \"id\", \"", "{column}", "\" FROM \"", "{table}", "\" WHERE (\"",
    "{column}", "\" = ", "$", "1", " OR \"", "{column}", "\" LIKE ", "$", "2", ")">>

\* the check made on the wrong field
ColumnNameEmpty(opts) == Len(opts.columnName) = 0

\* len(opts.tableName) == 0
TableNameEmpty(opts) == Len(opts.tableName) = 0

\* params := []any{slug, fmt.Sprint(slug, opts.seperator, "%")}
BaseParams(opts, slug) == <<slug, Sprint3(slug, opts.seperator, <<"%">>)>>

\* the inner loop over args, from index i (0-based) on: every pass replaces
\* all "?" left in the fragment by the placeholder of the next parameter and
\* appends args[i]
RECURSIVE NormalizeWhere(_, _, _, _)
NormalizeWhere(normalizedSql, args, i, params) ==
  IF i >= Len(args) THEN [normalizedSql |-> normalizedSql, params |-> params]
  ELSE LET placeholder == <<"$">> \o Itoa(Len(params) + 1)
       IN  NormalizeWhere(ReplaceAll(normalizedSql, "?", placeholder),
                          args, i + 1, Append(params, args[i + 1]))

\* for whereSql, args := range opts.wheres, in the iteration order `order`
RECURSIVE AppendWheres(_, _, _, _)
AppendWheres(wheres, order, sql, params) ==
  IF order = <<>> THEN [sql |-> sql, params |-> params]
  ELSE LET whereSql == Head(order)
           args     == wheres[whereSql]
           inner    == NormalizeWhere(whereSql, args, 0, params)
       IN  AppendWheres(wheres, Tail(order),
                        sql \o <<" AND (">> \o inner.normalizedSql \o <<")">>,
                        inner.params \o args)

\* the query without the loop over opts.wheres
BuildQueryBaseOnly(opts, slug, order) ==
  [sql    |-> ReplaceAll(ReplaceAll(BaseSql, "{table}", opts.tableName),
                         "{column}", opts.columnName),
   params |-> BaseParams(opts, slug)]

\* the query text with the names filled in, and the parameters bound to it
BuildQuery(opts, slug, order) ==
  LET built == AppendWheres(opts.wheres, order, BaseSql, BaseParams(opts, slug))
  IN  [sql    |-> ReplaceAll(ReplaceAll(built.sql, "{table}", opts.tableName),
                             "{column}", opts.columnName),
       params |-> built.params]

\* the orders in which a range over a Go map can visit its keys
IterationOrders(keys) ==
  {order \in [1..Cardinality(keys) -> keys] :
     \A i, j \in 1..Cardinality(keys) : i # j => order[i] # order[j]}

(***************************************************************************)
(* the executor                                                            *)
(***************************************************************************)
\* SQL LIKE: "%" matches any run of characters, "_" any one character
RECURSIVE Like(_, _)
Like(s, pattern) ==
  IF pattern = <<>> THEN s = <<>>
  ELSE IF Head(pattern) = "%"
       THEN \E k \in 0..Len(s) : Like(SubSeq(s, k + 1, Len(s)), Tail(pattern))
  ELSE /\ s # <<>>
       /\ Head(pattern) = "_" \/ Head(pattern) = Head(s)
       /\ Like(Tail(s), Tail(pattern))

\* "{column}" = $1 OR "{column}" LIKE $2
Matches(stored, params) == stored = params[1] \/ Like(stored, params[2])

Ids == {Itoa(i) : i \in 1..MaxRows}

Methods == {"slugify", "replace"}

Seperators == {<<"-">>, <<"_">>}

Values == {<<"A", " ", "b">>, <<"5">>}

\* the slugs a table can hold: every candidate, its numbered continuations
\* and a continuation that is not a number
StoredSlugs ==
  UNION {{Method(m, v, s)}
           \cup {Sprint3(Method(m, v, s), t, Itoa(n)) : n \in 0..MaxSuffix}
           \cup {Sprint3(Method(m, v, s), t, <<"b">>)} :
         m \in Methods, v \in Values, s \in Seperators, t \in Seperators}

\* what db.Query can return when it succeeds: rows of the table (ids are
\* unique) that satisfy the base predicate; the additional predicates and
\* the table's content decide which of them
RowSets(params) ==
  UNION {[ids -> {stored \in StoredSlugs : Matches(stored, params)}] :
         ids \in SUBSET Ids}

(***************************************************************************)
(* Sluggable.Generate: the decision                                        *)
(***************************************************************************)
\* the identifier branch without the empty and prefix cases
ShortCircuitExactOnly(opts, slug, simularList) ==
  /\ opts.identifier # <<>>
  /\ opts.identifier \in DOMAIN simularList
  /\ simularList[opts.identifier] = slug

\* the identifier branch returns existingSlug
ShortCircuit(opts, slug, simularList) ==
  /\ opts.identifier # <<>>
  /\ opts.identifier \in DOMAIN simularList
  /\ LET existingSlug == simularList[opts.identifier]
     IN  existingSlug = slug \/ existingSlug = <<>> \/ HasPrefix(existingSlug, slug)

Max(S) == CHOOSE x \in S : \A y \in S : y <= x

\* latestSuffix after the loop over simularList
LatestSuffix(opts, slug, simularList) ==
  LET suffixOf(simular) == Atoi(TrimPrefix(simular, slug \o opts.seperator))
      numbers == {suffixOf(simularList[id]).n :
                    id \in {i \in DOMAIN simularList : ~suffixOf(simularList[i]).err}}
  IN  Max(numbers \cup {0})

\* the candidate returned bare whenever no scanned row holds it
DecideBareWithoutExactMatch(opts, slug, simularList) ==
  IF \A id \in DOMAIN simularList : simularList[id] # slug THEN slug
  ELSE IF ShortCircuit(opts, slug, simularList) THEN simularList[opts.identifier]
  ELSE LET latestSuffix == LatestSuffix(opts, slug, simularList)
       IN  IF latestSuffix > 0
           THEN Sprint3(slug, opts.seperator, Itoa(latestSuffix + 1))
           ELSE Sprint3(slug, opts.seperator, Itoa(opts.firstUniqueSuffix))

\* the decision without the early return on an empty simularList
DecideWithoutEmptyCheck(opts, slug, simularList) ==
  IF ShortCircuit(opts, slug, simularList) THEN simularList[opts.identifier]
  ELSE LET latestSuffix == LatestSuffix(opts, slug, simularList)
       IN  IF latestSuffix > 0
           THEN Sprint3(slug, opts.seperator, Itoa(latestSuffix + 1))
           ELSE Sprint3(slug, opts.seperator, Itoa(opts.firstUniqueSuffix))

\* the value returned once the rows are scanned
Decide(opts, slug, simularList) ==
  IF DOMAIN simularList = {} THEN slug
  ELSE IF ShortCircuit(opts, slug, simularList) THEN simularList[opts.identifier]
  ELSE LET latestSuffix == LatestSuffix(opts, slug, simularList)
       IN  IF latestSuffix > 0
           THEN Sprint3(slug, opts.seperator, Itoa(latestSuffix + 1))
           ELSE Sprint3(slug, opts.seperator, Itoa(opts.firstUniqueSuffix))

\* the query run a second time after a failure or for the decision
QueryWithRetry(n) == n + 2

\* rows, err := db.Query(sql, params...): one more call of the executor
QueryOnce(n) == n + 1

\* the failing row skipped: the decision is made on the rows decoded so far
ScanErrorSkipsRow(opts, slug, simularList) ==
  [ret |-> Decide(opts, slug, simularList), err |-> "nil"]

\* return "", fmt.Errorf("[sluggable] failed to scan sluggable value: %w", err)
ScanErrorResult(opts, slug, simularList) == [ret |-> <<>>, err |-> "scan"]

\* the query error dropped: the call goes on as if no row had matched
QueryErrorIgnored(slug) == [ret |-> slug, err |-> "nil"]

\* return "", fmt.Errorf("[sluggable] failed to query sluggable: %w", err)
QueryErrorResult(slug) == [ret |-> <<>>, err |-> "query"]

(***************************************************************************)
(* the process-wide instance                                               *)
(***************************************************************************)
\* a fresh instance on every call
ConfigureAlwaysNew(exists, opts, list) == New(list)

\* Configure: _global.options after the call; exists is _global != nil and
\* opts is _global.options before it
ConfigureOptions(exists, opts, list) ==
  IF ~exists THEN New(list) ELSE ApplyOptions(opts, list)

(***************************************************************************)
(* state                                                                   *)
(***************************************************************************)
VARIABLES
  options,      \* s.options, the instance's configuration
  pc,           \* position of the current Generate call
  value,        \* its argument
  slug,         \* local slug
  sql,          \* local sql
  params,       \* local params
  whereOrder,   \* the order in which the range over opts.wheres ran
  simularList,  \* local simularList
  queries,      \* calls of db.Query made by the current call
  dbFailed,     \* db.Query returned an error
  scanFailed,   \* rows.Scan returned an error
  ret,          \* returned slug
  err,          \* returned error: "nil", "config", "query" or "scan"
  hasGlobal,    \* _global != nil; options is then _global.options
  configured,   \* <<the options of the Configure call>> when Configure was
                \* the last call made, <<>> otherwise
  table,        \* the rows of the table, in insertion order
  calls         \* the Generate calls of concurrent callers

vars == <<options, pc, value, slug, sql, params, whereOrder, simularList,
          queries, dbFailed, scanFailed, ret, err, hasGlobal, configured, table,
          calls>>

\* what a Generate call on an instance leaves alone
world == <<hasGlobal, configured, table, calls>>

NoRows == [id \in {} |-> <<>>]

\* the option lists given to New and to Generate
OptionLists ==
  {<<>>,
   <<Option("WithTableName", <<"articles">>, 0, <<>>)>>,
   <<Option("WithTableName", <<"articles">>, 0, <<>>),
     Option("WithIdentifier", <<"1">>, 0, <<>>)>>,
   <<Option("WithSeperator", <<"_">>, 0, <<>>),
     Option("WithMethod", <<"replace">>, 0, <<>>)>>,
   <<Option("WithFirstUniqueSuffix", <<>>, 0, <<>>)>>,
   <<Option("WithDeleted", <<>>, 0, <<>>),
     Option("WithWhere", CustomWhere, 0, <<<<"1">>, <<"2">>>>)>>,
   <<Option("WithWhere", UserWhere, 0, <<<<"123">>>>)>>}

\* the option lists given to New: those of OptionLists, and WithDeleted()
\* alone as in TestWithDeleted_Integration
NewLists == OptionLists \cup {<<Option("WithDeleted", <<>>, 0, <<>>)>>}

Callers == {1, 2}

\* a caller that is not inside Generate
IdleCall ==
  [pc          |-> "idle",
   value       |-> <<>>,
   overrides   |-> <<>>,
   interleaved |-> FALSE,
   slug        |-> <<>>,
   sql         |-> <<>>,
   params      |-> <<>>,
   rows        |-> NoRows,
   ret         |-> <<>>]

\* no call has been made yet
InitCall ==
  /\ pc = "idle"
  /\ value = <<>>
  /\ slug = <<>>
  /\ sql = <<>>
  /\ params = <<>>
  /\ whereOrder = <<>>
  /\ simularList = NoRows
  /\ queries = 0
  /\ dbFailed = FALSE
  /\ scanFailed = FALSE
  /\ ret = <<>>
  /\ err = "nil"
  /\ calls = [c \in Callers |-> IdleCall]

Init ==
  /\ options \in {New(list) : list \in NewLists}
  /\ hasGlobal = FALSE
  /\ configured = <<>>
  /\ table = <<>>
  /\ InitCall

(***************************************************************************)
(* Sluggable.Generate, step by step                                        *)
(***************************************************************************)
\* entry of s.Generate on the instance whose configuration is base: the
\* overrides are applied to opts, which is s.options itself; an empty table
\* name returns the configuration error, otherwise the candidate slug is
\* computed
EnterGenerate(base, v, overrides) ==
  /\ pc \in {"idle", "done"}
  /\ value' = v
  /\ options' = ApplyOptions(base, overrides)
  /\ sql' = <<>>
  /\ params' = <<>>
  /\ whereOrder' = <<>>
  /\ simularList' = NoRows
  /\ queries' = 0
  /\ dbFailed' = FALSE
  /\ scanFailed' = FALSE
  /\ ret' = <<>>
  /\ IF TableNameEmpty(options')
     THEN /\ slug' = <<>>
          /\ err' = "config"
          /\ pc' = "done"
     ELSE /\ slug' = Method(options'.method, v, options'.seperator)
          /\ err' = "nil"
          /\ pc' = "build"

GenerateBegin(v, overrides) ==
  /\ EnterGenerate(options, v, overrides)
  /\ UNCHANGED world

\* the query text and its parameters
GenerateBuildQuery ==
  /\ pc = "build"
  /\ \E order \in IterationOrders(DOMAIN options.wheres) :
       LET query == BuildQuery(options, slug, order)
       IN  /\ sql' = query.sql
           /\ params' = query.params
           /\ whereOrder' = order
  /\ pc' = "query"
  /\ UNCHANGED <<options, value, slug, simularList, queries, dbFailed,
                 scanFailed, ret, err, world>>

\* db.Query fails
GenerateQueryError ==
  /\ pc = "query"
  /\ queries' = QueryOnce(queries)
  /\ dbFailed' = TRUE
  /\ ret' = QueryErrorResult(slug).ret
  /\ err' = QueryErrorResult(slug).err
  /\ pc' = "done"
  /\ UNCHANGED <<options, value, slug, sql, params, whereOrder, simularList,
                 scanFailed, world>>

\* db.Query succeeds and rows.Scan fails on a row, after the rows before it
\* were decoded into simularList
GenerateScanError ==
  /\ pc = "query"
  /\ queries' = QueryOnce(queries)
  /\ \E rows \in RowSets(params) :
       /\ Cardinality(DOMAIN rows) < MaxRows
       /\ simularList' = rows
       /\ ret' = ScanErrorResult(options, slug, rows).ret
       /\ err' = ScanErrorResult(options, slug, rows).err
  /\ scanFailed' = TRUE
  /\ pc' = "done"
  /\ UNCHANGED <<options, value, slug, sql, params, whereOrder, dbFailed, world>>

\* db.Query succeeds and every row is scanned into simularList
GenerateQueryRows ==
  /\ pc = "query"
  /\ queries' = QueryOnce(queries)
  /\ \E rows \in RowSets(params) : simularList' = rows
  /\ pc' = "decide"
  /\ UNCHANGED <<options, value, slug, sql, params, whereOrder, dbFailed,
                 scanFailed, ret, err, world>>

\* the decision on the scanned rows
GenerateDecide ==
  /\ pc = "decide"
  /\ ret' = Decide(options, slug, simularList)
  /\ err' = "nil"
  /\ pc' = "done"
  /\ UNCHANGED <<options, value, slug, sql, params, whereOrder, simularList,
                 queries, dbFailed, scanFailed, world>>

Next ==
  \/ \E v \in Values, overrides \in OptionLists : GenerateBegin(v, overrides)
  \/ GenerateBuildQuery
  \/ GenerateQueryError
  \/ GenerateScanError
  \/ GenerateQueryRows
  \/ GenerateDecide

Spec == Init /\ [][Next]_vars

(***************************************************************************)
(* Configure and the package-level Generate                                *)
(***************************************************************************)
\* the option lists given to Configure: those of TestConfigure and of the
\* example's init()
ConfigureLists ==
  {<<>>,
   <<Option("WithSeperator", <<"_">>, 0, <<>>),
     Option("WithFirstUniqueSuffix", <<>>, 1, <<>>)>>,
   <<Option("WithSeperator", <<"-">>, 0, <<>>)>>,
   <<Option("WithTableName", <<"articles">>, 0, <<>>)>>,
   <<Option("WithDeleted", <<>>, 0, <<>>),
     Option("WithWhere", UserWhere, 0, <<<<"123">>>>)>>}

\* the overrides given to the package-level Generate
GlobalOverrides ==
  {<<>>,
   <<Option("WithTableName", <<"articles">>, 0, <<>>)>>,
   <<Option("WithIdentifier", <<"1">>, 0, <<>>)>>}

\* nothing has created the process-wide instance
InitGlobal ==
  /\ options = getDefaultOptions
  /\ hasGlobal = FALSE
  /\ configured = <<>>
  /\ table = <<>>
  /\ InitCall

\* Configure(options...), between two calls of Generate
Configure(list) ==
  /\ pc \in {"idle", "done"}
  /\ options' = ConfigureOptions(hasGlobal, options, list)
  /\ hasGlobal' = TRUE
  /\ configured' = <<list>>
  /\ UNCHANGED <<pc, value, slug, sql, params, whereOrder, simularList,
                 queries, dbFailed, scanFailed, ret, err, table, calls>>

\* Generate(db, value, options...): the instance is created with the
\* defaults when there is none, then _global.Generate is entered
Generate(v, overrides) ==
  /\ EnterGenerate(IF hasGlobal THEN options ELSE New(<<>>), v, overrides)
  /\ hasGlobal' = TRUE
  /\ configured' = <<>>
  /\ UNCHANGED <<table, calls>>

NextGlobal ==
  \/ \E list \in ConfigureLists : Configure(list)
  \/ \E v \in Values, overrides \in GlobalOverrides : Generate(v, overrides)
  \/ GenerateBuildQuery
  \/ GenerateQueryError
  \/ GenerateScanError
  \/ GenerateQueryRows
  \/ GenerateDecide

SpecGlobal == InitGlobal /\ [][NextGlobal]_vars

(***************************************************************************)
(* callers that share one instance and one table                           *)
(***************************************************************************)
\* the variables of the single call, which the callers below do not use
single == <<pc, value, slug, sql, params, whereOrder, simularList, queries,
            dbFailed, scanFailed, ret, err>>

\* the option lists of the shared instance
RaceLists ==
  {<<Option("WithTableName", <<"articles">>, 0, <<>>)>>,
   <<Option("WithTableName", <<"articles">>, 0, <<>>),
     Option("WithFirstUniqueSuffix", <<>>, 0, <<>>)>>}

\* the overrides a caller passes to Generate
OverridesOf(c) ==
  IF c = 1 THEN {<<>>, <<Option("WithSeperator", <<"-">>, 0, <<>>)>>}
  ELSE {<<>>, <<Option("WithSeperator", <<"_">>, 0, <<>>)>>}

\* an executor that returns exactly the rows of the table that match the
\* query, the id of a row being its position
ExactRows(rows, queryParams) ==
  [id \in {Itoa(i) : i \in {k \in 1..Len(rows) : Matches(rows[k].slug, queryParams)}}
     |-> rows[Atoi(id).n].slug]

Active(c) == calls[c].pc # "idle"

InitRace ==
  /\ options \in {New(list) : list \in RaceLists}
  /\ hasGlobal = FALSE
  /\ configured = <<>>
  /\ table = <<>>
  /\ InitCall

\* caller c enters s.Generate: its overrides are written to the shared
\* s.options and the candidate slug is computed from it
CallBegin(c, v, overrides) ==
  /\ ~Active(c)
  /\ Len(table) + Cardinality({d \in Callers : Active(d)}) < MaxTable
  /\ options' = ApplyOptions(options, overrides)
  /\ ~TableNameEmpty(options')
  /\ calls' =
       [d \in Callers |->
          IF d = c
          THEN [IdleCall EXCEPT
                  !.pc = "build",
                  !.value = v,
                  !.overrides = overrides,
                  !.interleaved = \E e \in Callers \ {c} : Active(e),
                  !.slug = Method(options'.method, v, options'.seperator)]
          ELSE IF Active(d) THEN [calls[d] EXCEPT !.interleaved = TRUE]
          ELSE calls[d]]
  /\ UNCHANGED <<single, hasGlobal, configured, table>>

\* caller c builds its query from s.options as it is now
CallBuildQuery(c) ==
  /\ calls[c].pc = "build"
  /\ \E order \in IterationOrders(DOMAIN options.wheres) :
       LET query == BuildQuery(options, calls[c].slug, order)
       IN  calls' = [calls EXCEPT ![c].pc = "query",
                                  ![c].sql = query.sql,
                                  ![c].params = query.params]
  /\ UNCHANGED <<single, options, hasGlobal, configured, table>>

\* caller c runs its query and scans the rows
CallQuery(c) ==
  /\ calls[c].pc = "query"
  /\ calls' = [calls EXCEPT ![c].pc = "decide",
                            ![c].rows = ExactRows(table, calls[c].params)]
  /\ UNCHANGED <<single, options, hasGlobal, configured, table>>

\* caller c decides on its rows with s.options as it is now, and Generate
\* returns
CallDecide(c) ==
  /\ calls[c].pc = "decide"
  /\ calls' = [calls EXCEPT ![c].pc = "insert",
                            ![c].ret = Decide(options, calls[c].slug, calls[c].rows)]
  /\ UNCHANGED <<single, options, hasGlobal, configured, table>>

\* caller c inserts a row holding the slug Generate returned
CallInsert(c) ==
  /\ calls[c].pc = "insert"
  /\ table' = Append(table, [slug        |-> calls[c].ret,
                             by          |-> c,
                             value       |-> calls[c].value,
                             overrides   |-> calls[c].overrides,
                             interleaved |-> calls[c].interleaved])
  /\ calls' = [calls EXCEPT ![c].pc = "idle"]
  /\ UNCHANGED <<single, options, hasGlobal, configured>>

NextRace ==
  \/ \E c \in Callers, v \in Values : \E overrides \in OverridesOf(c) :
       CallBegin(c, v, overrides)
  \/ \E c \in Callers : CallBuildQuery(c)
  \/ \E c \in Callers : CallQuery(c)
  \/ \E c \in Callers : CallDecide(c)
  \/ \E c \in Callers : CallInsert(c)

SpecRace == InitRace /\ [][NextRace]_vars

(***************************************************************************)
(* Properties                                                              *)
(***************************************************************************)
\* the candidate slug of the current call, from its argument and the merged
\* configuration
Candidate == Method(options.method, value, options.seperator)

\* the current call ran its query and the rows were scanned
RowsScanned == pc = "done" /\ queries = 1 /\ ~dbFailed /\ ~scanFailed

StoredValues == {simularList[id] : id \in DOMAIN simularList}

\* the row of the configured identifier holds a slug that is the candidate,
\* is empty or starts with the candidate
IdentifierRowCompatible ==
  /\ options.identifier # <<>>
  /\ options.identifier \in DOMAIN simularList
  /\ \/ simularList[options.identifier] = Candidate
     \/ simularList[options.identifier] = <<>>
     \/ /\ Len(simularList[options.identifier]) >= Len(Candidate)
        /\ SubSeq(simularList[options.identifier], 1, Len(Candidate)) = Candidate

\* the positive n for which candidate+seperator+n is a stored slug
PositiveSuffixes ==
  {n \in 1..MaxSuffix : Candidate \o options.seperator \o Itoa(n) \in StoredValues}

\* C1: when the executor returns no rows, Generate returns the candidate
\* slug method(value, seperator), without suffix, and a nil error.
C1_NoCollision ==
  (RowsScanned /\ DOMAIN simularList = {}) => (ret = Candidate /\ err = "nil")

C1_Witness ==
  /\ RowsScanned
  /\ DOMAIN simularList = {}
  /\ options.seperator = <<"_">>
  /\ ret = <<"a", "_", "b">>

\* C2: with a non-empty row set, no identifier short-circuit and a stored
\* slug candidate+seperator+n with n positive, Generate returns
\* candidate+seperator+(max such n + 1).
C2_MaxSuffixPlusOne ==
  (RowsScanned /\ DOMAIN simularList # {} /\ ~IdentifierRowCompatible
     /\ PositiveSuffixes # {})
  => ret = Candidate \o options.seperator \o Itoa(Max(PositiveSuffixes) + 1)

\* C3: with a non-empty row set, no identifier short-circuit and no stored
\* slug candidate+seperator+n with n positive, Generate returns
\* candidate+seperator+firstUniqueSuffix.
C3_FirstUniqueSuffix ==
  (RowsScanned /\ DOMAIN simularList # {} /\ ~IdentifierRowCompatible
     /\ PositiveSuffixes = {})
  => ret = Candidate \o options.seperator \o Itoa(options.firstUniqueSuffix)

\* C4: when the row of the configured identifier holds a slug that equals
\* the candidate, is empty or starts with the candidate, Generate returns
\* that stored slug unchanged, whatever the other rows are.
C4_IdentifierShortCircuit ==
  (RowsScanned /\ IdentifierRowCompatible)
  => (ret = simularList[options.identifier] /\ err = "nil")

C4_Witness ==
  /\ RowsScanned
  /\ IdentifierRowCompatible
  /\ simularList[options.identifier] = Candidate
  /\ \E id \in DOMAIN simularList :
       simularList[id] = Candidate \o options.seperator \o Itoa(MaxSuffix)
  /\ ret = Candidate

\* C5: when Generate succeeds without taking the identifier short-circuit,
\* the slug it returns differs from every slug of the returned rows.
C5_UniqueAgainstRows ==
  (RowsScanned /\ ~IdentifierRowCompatible) => ret \notin StoredValues

\* C6: the overrides given to Generate do not change the configuration
\* stored in the instance.
C6_BaseNotMutated == [][(pc \in {"idle", "done"}) => (options' = options)]_vars

RECURSIVE FlattenArgs(_, _)
FlattenArgs(wheres, order) ==
  IF order = <<>> THEN <<>>
  ELSE wheres[Head(order)] \o FlattenArgs(wheres, Tail(order))

\* the two base parameters, then the parameters of each predicate once, in
\* the order in which the predicates were appended
ExpectedParams ==
  <<Candidate, Candidate \o options.seperator \o <<"%">>>>
    \o FlattenArgs(options.wheres, whereOrder)

\* C7: the parameter list given to the executor is the two base parameters
\* followed by each predicate's parameters once, in append order.
C7_ParameterList == pc = "query" => params = ExpectedParams

RECURSIVE DigitRun(_)
DigitRun(text) ==
  IF text = <<>> \/ Head(text) \notin DigitChars THEN <<>>
  ELSE <<Head(text)>> \o DigitRun(Tail(text))

\* the positional indices of the query text, left to right
RECURSIVE Placeholders(_)
Placeholders(text) ==
  IF text = <<>> THEN <<>>
  ELSE IF Head(text) = "$"
       THEN <<ParseDigits(DigitRun(Tail(text)), 0)>> \o Placeholders(Tail(text))
  ELSE Placeholders(Tail(text))

\* C8: the placeholders of the query are numbered consecutively, each with
\* its own index, and the parameter at a placeholder's index is the
\* parameter written for that placeholder.
C8_PlaceholderRenumbering ==
  pc = "query" =>
    /\ Placeholders(sql) = [i \in 1..Len(ExpectedParams) |-> i]
    /\ Len(params) = Len(ExpectedParams)
    /\ \A i \in 1..Len(ExpectedParams) : params[i] = ExpectedParams[i]

\* C9: with an empty table name after the merge, Generate returns an empty
\* slug and the configuration error, and the executor is never called.
C9_EmptyTableName ==
  options.tableName = <<>> =>
    /\ pc \in {"idle", "done"}
    /\ queries = 0
    /\ pc = "done" => (ret = <<>> /\ err = "config")

C9_Witness ==
  /\ pc = "done"
  /\ options.tableName = <<>>
  /\ value # <<>>
  /\ err = "config"
  /\ DOMAIN options.wheres = {CustomWhere}

\* C10: when the executor's query fails, Generate returns an empty slug and
\* the query error; the query ran once and no decision was made.
C10_QueryError ==
  dbFailed => (pc = "done" /\ ret = <<>> /\ err = "query" /\ queries = 1
               /\ simularList = NoRows)

C10_Witness ==
  /\ dbFailed
  /\ pc = "done"
  /\ err = "query"
  /\ Len(params) > 2

\* C11: when decoding a row fails, the call ends with an empty slug and the
\* scan error, whatever rows were decoded before; the slug the decoded rows
\* would give is not returned.
C11_ScanError ==
  scanFailed => (pc = "done" /\ ret = <<>> /\ err = "scan" /\ queries = 1)

C11_Witness ==
  /\ scanFailed
  /\ DOMAIN simularList # {}
  /\ Decide(options, slug, simularList) # <<>>
  /\ ret = <<>>
  /\ err = "scan"

\* C12: a call whose merged table name is not empty calls the executor's
\* query exactly once, on success and on failure, and the statement it runs
\* is the SELECT: nothing is written.
C12_ExactlyOneQuery ==
  /\ queries <= 1
  /\ pc \in {"build", "query"} => queries = 0
  /\ (pc = "decide" \/ (pc = "done" /\ options.tableName # <<>>)) => queries = 1
  /\ queries = 1 => (sql # <<>> /\ Head(sql) = "SELECT \"id\", \"")

C12_Witness ==
  /\ pc = "done"
  /\ options.tableName # <<>>
  /\ queries = 1
  /\ ~dbFailed
  /\ ~scanFailed
  /\ Cardinality(DOMAIN simularList) = MaxRows

\* text occurs in s as a run of consecutive pieces
Contains(s, text) ==
  \E i \in 0..(Len(s) - Len(text)) : SubSeq(s, i + 1, i + Len(text)) = text

\* the base statement up to the closing parenthesis of the slug clause
BaseClause ==
  <<"SELECT \"id\", \"">> \o options.columnName \o <<"\" FROM \"">>
    \o options.tableName \o <<"\" WHERE (\"">> \o options.columnName
    \o <<"\" = ", "$", "1", " OR \"">> \o options.columnName
    \o <<"\" LIKE ", "$", "2", ")">>

\* the query is built and db.Query is about to be called
QueryBuilt == pc = "query"

ArgLists == {<<>>, <<<<"1">>>>, <<<<"1">>, <<"2">>>>, <<<<"123">>>>}

Fragments == {UserWhere, CustomWhere}

\* the fields of a configuration other than wheres
OtherFields(opts) == [opts EXCEPT !.wheres = <<>>]

\* the options of a call were just applied to the configuration
OptionsApplied == pc \in {"idle", "build"} \/ (pc = "done" /\ err = "config")

\* C14: on every configuration that the applied options leave, WithDeleted
\* applied twice gives the configuration WithDeleted gives once; WithWhere
\* applied twice with one fragment leaves one entry for the fragment,
\* holding the parameters of the last call; the other predicate entries and
\* the other fields stay as they were.
C14_IdempotentPredicateOptions ==
  OptionsApplied =>
    /\ WithDeleted(WithDeleted(options)) = WithDeleted(options)
    /\ DOMAIN WithDeleted(options).wheres = DOMAIN options.wheres \ {excludeDeletedWhere}
    /\ \A w \in DOMAIN WithDeleted(options).wheres :
         WithDeleted(options).wheres[w] = options.wheres[w]
    /\ OtherFields(WithDeleted(options)) = OtherFields(options)
    /\ \A fragment \in Fragments, first \in ArgLists, last \in ArgLists :
         LET twice == WithWhere(WithWhere(options, fragment, first), fragment, last)
         IN  /\ twice = WithWhere(options, fragment, last)
             /\ DOMAIN twice.wheres = DOMAIN options.wheres \cup {fragment}
             /\ twice.wheres[fragment] = last
             /\ \A w \in DOMAIN options.wheres \ {fragment} :
                  twice.wheres[w] = options.wheres[w]
             /\ OtherFields(twice) = OtherFields(options)

C14_Witness ==
  /\ OptionsApplied
  /\ DOMAIN options.wheres = {CustomWhere, UserWhere}
  /\ options.wheres[UserWhere] = <<<<"123">>>>
  /\ WithWhere(options, UserWhere, <<>>).wheres[UserWhere] = <<>>
  /\ WithDeleted(options) = options

\* C15: the query text and the parameter list of a call are a function of
\* the merged configuration and the value: every order in which the
\* predicates can be visited gives the query that was built.
C15_DeterministicQuery ==
  pc = "query" =>
    \A order \in IterationOrders(DOMAIN options.wheres) :
      /\ BuildQuery(options, slug, order).sql = sql
      /\ BuildQuery(options, slug, order).params = params

\* the scanned rows without the verbatim duplicates of the candidate
WithoutDuplicates ==
  [id \in {i \in DOMAIN simularList : simularList[i] # Candidate} |-> simularList[id]]

\* C17: a stored slug equal to the candidate adds nothing to latestSuffix:
\* the scan gives the same number with and without it, for every candidate.
C17_DuplicateContributesNothing ==
  RowsScanned =>
    LatestSuffix(options, Candidate, simularList)
      = LatestSuffix(options, Candidate, WithoutDuplicates)

\* the positions of the options of one kind in an option list
Named(list, kind) == {i \in 1..Len(list) : list[i].kind = kind}

\* the last option of one kind in an option list
LastNamed(list, kind) == list[Max(Named(list, kind))]

\* a step of Configure that changed something
ConfigureStep == configured' # <<>> /\ configured' # configured

\* the configuration Configure works on
ConfigureBase == IF hasGlobal THEN options ELSE getDefaultOptions

\* C16: after Configure the process-wide instance exists; every field that
\* an option of the call names holds the value of the last such option, and
\* every other field holds what it held before the call (the default when
\* the call created the instance), whatever earlier Configure and Generate
\* calls had set.
C16_ConfigureInPlace ==
  [][ConfigureStep =>
       LET list == configured'[1]
           text(kind, old) ==
             IF Named(list, kind) = {} THEN old ELSE LastNamed(list, kind).str
       IN  /\ hasGlobal'
           /\ options'.seperator = text("WithSeperator", ConfigureBase.seperator)
           /\ options'.tableName = text("WithTableName", ConfigureBase.tableName)
           /\ options'.columnName = text("WithColumnName", ConfigureBase.columnName)
           /\ options'.identifier = text("WithIdentifier", ConfigureBase.identifier)
           /\ options'.method =
                IF Named(list, "WithMethod") = {} THEN ConfigureBase.method
                ELSE LastNamed(list, "WithMethod").str[1]
           /\ options'.firstUniqueSuffix =
                IF Named(list, "WithFirstUniqueSuffix") = {}
                THEN ConfigureBase.firstUniqueSuffix
                ELSE LastNamed(list, "WithFirstUniqueSuffix").num
           /\ (Named(list, "WithDeleted") = {} /\ Named(list, "WithWhere") = {})
                => options'.wheres = ConfigureBase.wheres
           /\ Named(list, "WithDeleted") # {}
                => excludeDeletedWhere \notin DOMAIN options'.wheres
           /\ Named(list, "WithWhere") # {}
                => /\ LastNamed(list, "WithWhere").str \in DOMAIN options'.wheres
                   /\ options'.wheres[LastNamed(list, "WithWhere").str]
                        = LastNamed(list, "WithWhere").args
     ]_vars

C16_Witness ==
  /\ hasGlobal
  /\ configured = <<<<Option("WithSeperator", <<"-">>, 0, <<>>)>>>>
  /\ options.seperator = <<"-">>
  /\ options.firstUniqueSuffix = 1
  /\ options.tableName = <<"articles">>
  /\ pc = "done"

\* caller c named a seperator in its own overrides
NamesSeperator(c) == Named(calls[c].overrides, "WithSeperator") # {}

OwnSeperator(c) == LastNamed(calls[c].overrides, "WithSeperator").str

\* C18: a call that no other call overlapped works with the seperator of
\* its own overrides, in the query and in the slug it returns; a call that
\* another call overlapped can work with the other call's seperator.
C18_OwnOptionsUnlessInterleaved ==
  \A c \in Callers :
    (calls[c].pc \in {"query", "decide", "insert"} /\ NamesSeperator(c)
       /\ ~calls[c].interleaved)
    => /\ calls[c].params[2] = calls[c].slug \o OwnSeperator(c) \o <<"%">>
       /\ calls[c].pc = "insert" =>
            \/ calls[c].ret = calls[c].slug
            \/ HasPrefix(calls[c].ret, calls[c].slug \o OwnSeperator(c))

C18_Witness ==
  /\ calls[1].pc = "insert"
  /\ calls[1].interleaved
  /\ NamesSeperator(1)
  /\ OwnSeperator(1) = <<"-">>
  /\ calls[2].overrides = <<Option("WithSeperator", <<"_">>, 0, <<>>)>>
  /\ calls[1].params[2] = calls[1].slug \o <<"_", "%">>
  /\ HasPrefix(calls[1].ret, calls[1].slug \o <<"_">>)

\* C19: when no call overlapped another, two rows inserted by different
\* callers for the same value never hold the same slug.
C19_SerialCallersNeverDuplicate ==
  \A i, j \in 1..Len(table) :
    (i < j /\ table[i].by # table[j].by /\ table[i].value = table[j].value
       /\ ~table[i].interleaved /\ ~table[j].interleaved)
    => table[i].slug # table[j].slug

\* both callers queried before either inserted, got the same slug and
\* inserted it
RaceDuplicates ==
  \E i, j \in 1..Len(table) :
    /\ i < j
    /\ table[i].by # table[j].by
    /\ table[i].value = table[j].value
    /\ table[i].interleaved /\ table[j].interleaved
    /\ table[i].slug = table[j].slug

\* every row was inserted by a call for the same value, without overrides,
\* that no other call overlapped, and no call is under way
OneAtATime ==
  /\ \A c \in Callers : ~Active(c)
  /\ \A i \in 1..Len(table) :
       /\ ~table[i].interleaved
       /\ table[i].overrides = <<>>
       /\ table[i].value = table[1].value

\* C20: from an empty table, with firstUniqueSuffix at least 1, calls made
\* one at a time for one value store pairwise distinct slugs: the candidate,
\* then candidate+seperator+firstUniqueSuffix, then the suffix plus one each
\* time.
C20_SequentialSlugs ==
  (OneAtATime /\ options.firstUniqueSuffix >= 1 /\ options.identifier = <<>>)
  => /\ \A i, j \in 1..Len(table) : i < j => table[i].slug # table[j].slug
     /\ \A i \in 1..Len(table) :
          LET candidate == Method(options.method, table[1].value, options.seperator)
          IN  table[i].slug =
                IF i = 1 THEN candidate
                ELSE candidate \o options.seperator
                       \o Itoa(options.firstUniqueSuffix + i - 2)

\* text is the candidate, the seperator and then a run of digits
CandidateWithNumber(text) ==
  LET prefix == Candidate \o options.seperator
  IN  /\ Len(text) > Len(prefix)
      /\ SubSeq(text, 1, Len(prefix)) = prefix
      /\ \A i \in (Len(prefix) + 1)..Len(text) : text[i] \in DigitChars

\* C21: a call that succeeds returns the bare candidate only when no row
\* was returned or the identifier's row holds the candidate itself; with
\* rows and no identifier short-circuit the result is candidate, seperator
\* and an integer, also when no returned row holds the candidate.
C21_BareCandidateOnly ==
  RowsScanned =>
    /\ ret = Candidate =>
         \/ DOMAIN simularList = {}
         \/ IdentifierRowCompatible /\ simularList[options.identifier] = Candidate
    /\ (DOMAIN simularList # {} /\ ~IdentifierRowCompatible) =>
         CandidateWithNumber(ret)

C21_Witness ==
  /\ RowsScanned
  /\ StoredValues = {Candidate \o options.seperator \o <<"b">>}
  /\ ~IdentifierRowCompatible
  /\ Candidate = <<"a", "-", "b">>
  /\ options.seperator = <<"-">>
  /\ ret = Candidate \o options.seperator \o Itoa(DefaultFirstUniqueSuffix)

====
